---- MODULE Spec2Model ----
(***************************************************************************)
(* Personal Logger: the IndexedDB persistence layer (class LoggerDB) and   *)
(* the Alpine component that drives it (init, quickEntry, closeModal,      *)
(* useTemplate, voice result, saveEntry, loadRecentEntries, toast).        *)
(*                                                                         *)
(* One action is one run-to-completion step of the browser's event loop:   *)
(* a handler together with the promise continuations (microtasks) that     *)
(* follow it without an intervening task.  IndexedDB requests complete in  *)
(* tasks of their own, so a handler that awaits one is split at that       *)
(* point, and other handlers may run in between.                           *)
(***************************************************************************)
EXTENDS Integers, Sequences, FiniteSets, TLC

---------------------------------------------------------------------------
(* Bounds of the model *)

MaxEntries == 2    \* most records ever added to the object store
MaxLimit == 3      \* largest explicit limit passed to getRecentEntries

---------------------------------------------------------------------------
(* Program constants *)

version == 1           \* LoggerDB.version
DefaultLimit == 10     \* getRecentEntries(limit = 10)
LoadLimit == 10        \* loadRecentEntries: getRecentEntries(10)

\* The types the buttons pass to quickEntry.  The code hands the type on
\* unread, so two of the three ('task' is the third) stand for all.
Types == {"issue", "note"}

EntriesStore ==
    [name |-> "entries", keyPath |-> "id", autoIncrement |-> TRUE,
     indexes |-> {"timestamp", "type"}]

MsgEnterText == "Please enter some text"
MsgSaved == "Entry saved successfully"
MsgSaveFailed == "Failed to save entry"
MsgInitFailed == "Failed to initialize app"

---------------------------------------------------------------------------
(* Strings are sequences of characters. *)

IsWhiteSpace(c) == c = " "

RECURSIVE TrimStart(_)
TrimStart(s) ==
    IF s # <<>> /\ IsWhiteSpace(Head(s)) THEN TrimStart(Tail(s)) ELSE s

RECURSIVE TrimEnd(_)
TrimEnd(s) ==
    IF s # <<>> /\ IsWhiteSpace(s[Len(s)])
    THEN TrimEnd(SubSeq(s, 1, Len(s) - 1))
    ELSE s

TrimNothing(s) == s
\* String.prototype.trim
Trim(s) == TrimEnd(TrimStart(s))

\* The texts the user enters: empty, white space only, plain, and padded.
Texts == {<<>>, <<" ">>, <<"a">>, <<" ", "a", " ">>}

\* The templates are literal strings without surrounding white space.
Templates == {s \in Texts : s # <<>> /\ Trim(s) = s}

---------------------------------------------------------------------------
(* Clock and timestamps.  new Date() reads the wall clock, which the user  *)
(* or a time service may set back; toISOString() renders the instant as a  *)
(* fixed-width string of digits.                                           *)

\* Two readings, across the change of the leading digit.
Instants == {9, 10}

ToISOString(t) == <<t \div 10, t % 10>>

\* IndexedDB key comparison of two strings: code unit by code unit.
RECURSIVE StringLess(_, _)
StringLess(a, b) ==
    IF b = <<>> THEN FALSE
    ELSE IF a = <<>> THEN TRUE
    ELSE IF Head(a) # Head(b) THEN Head(a) < Head(b)
    ELSE StringLess(Tail(a), Tail(b))

---------------------------------------------------------------------------
(* State *)

VARIABLES
    database,       \* the origin's IndexedDB database: version and object stores
    store,          \* the records of the object store 'entries'
    keyGenerator,   \* the object store's key generator (autoIncrement)
    queue,          \* IndexedDB transactions created and not yet finished, in order
    dbHandle,       \* LoggerDB.db
    initPc,         \* where the component's init() stands
    showModal, currentType, entryText, isLoading,
    toastMessage, recentEntries

dbVars == <<database, store, keyGenerator>>
uiVars == <<showModal, currentType, entryText, isLoading, toastMessage,
            recentEntries>>
vars == <<database, store, keyGenerator, queue, dbHandle, initPc,
          showModal, currentType, entryText, isLoading, toastMessage,
          recentEntries>>

NoEntry == [type |-> "", content |-> <<>>, timestamp |-> <<>>, synced |-> FALSE]

\* The entry object saveEntry builds: no id, the key generator supplies it.
NewEntry(type, text, now) ==
    [type |-> type, content |-> Trim(text), timestamp |-> ToISOString(now),
     synced |-> FALSE]

Stored(entry, id) ==
    [id |-> id, type |-> entry.type, content |-> entry.content,
     timestamp |-> entry.timestamp, synced |-> entry.synced]

---------------------------------------------------------------------------
(* LoggerDB.getRecentEntries: a cursor over the index 'timestamp' in       *)
(* direction 'prev'.  The index orders records by key (the timestamp) and, *)
(* among equal keys, by primary key (the id).                              *)

IndexLessTiesReversed(r1, r2) ==
    \/ StringLess(r1.timestamp, r2.timestamp)
    \/ r1.timestamp = r2.timestamp /\ r1.id > r2.id
IndexLess(r1, r2) ==
    \/ StringLess(r1.timestamp, r2.timestamp)
    \/ r1.timestamp = r2.timestamp /\ r1.id < r2.id

CursorNext(records) ==
    CHOOSE r \in records : \A o \in records : o = r \/ IndexLess(r, o)

\* openCursor(null, 'prev') and cursor.continue(): the last record in index
\* order among those not yet visited.
CursorPrev(records) ==
    CHOOSE r \in records : \A o \in records : o = r \/ IndexLess(o, r)

CursorGoesOnInclusive(entries, limit) == Len(entries) <= limit
\* the onsuccess test: entries.length < limit
CursorGoesOn(entries, limit) == Len(entries) < limit

RECURSIVE CursorWalk(_, _, _)
CursorWalk(records, entries, limit) ==
    IF records # {} /\ CursorGoesOn(entries, limit)
    THEN LET value == CursorPrev(records)
         IN CursorWalk(records \ {value}, Append(entries, value), limit)
    ELSE entries

\* args is the argument list of the call: <<>> or <<limit>>.
LimitOf(args) == IF args = <<>> THEN DefaultLimit ELSE args[1]

GetRecentEntries(records, args) == CursorWalk(records, <<>>, LimitOf(args))

---------------------------------------------------------------------------
(* Initial state: the database does not exist, the component is built.     *)

Init ==
    /\ database = [version |-> 0, objectStores |-> <<>>]
    /\ store = {}
    /\ keyGenerator = 1
    /\ queue = <<>>
    /\ dbHandle = "null"
    /\ initPc = "start"
    /\ showModal = FALSE
    /\ currentType = ""
    /\ entryText = <<>>
    /\ isLoading = FALSE
    /\ toastMessage = ""
    /\ recentEntries = <<>>

---------------------------------------------------------------------------
(* Helpers shared by the handlers *)

\* The message the toast shows; the timer that hides it again is left out.
ShowToastMessage(message) == toastMessage' = message

Contains(objectStores, name) ==
    \E i \in 1..Len(objectStores) : objectStores[i].name = name

AddRequest(entry) == [op |-> "add", owner |-> "save", entry |-> entry]
CursorRequest(owner, entry) == [op |-> "cursor", owner |-> owner, entry |-> entry]

PendingAdds == Cardinality({i \in 1..Len(queue) : queue[i].op = "add"})

---------------------------------------------------------------------------
(* Component init() and LoggerDB.init() *)

\* init() runs up to `await this.db.init()`: the open request is pending.
AppInit ==
    /\ initPc = "start"
    /\ initPc' = "opening"
    /\ UNCHANGED <<dbVars, queue, dbHandle, uiVars>>

OpenSuccessRecreates ==
    /\ initPc = "opening"
    /\ database' = [version |-> version,
                    objectStores |-> Append(database.objectStores, EntriesStore)]
    /\ store' = {}
    /\ keyGenerator' = 1
    /\ dbHandle' = "open"
    /\ queue' = Append(queue, CursorRequest("init", NoEntry))
    /\ initPc' = "loading"
    /\ UNCHANGED uiVars

\* onupgradeneeded, then onsuccess, then init() goes on to
\* loadRecentEntries(), which starts the cursor request.
OpenSuccess ==
    /\ initPc = "opening"
    /\ IF database.version < version
       THEN IF ~Contains(database.objectStores, "entries")
            THEN /\ database' = [version |-> version,
                                 objectStores |-> Append(database.objectStores,
                                                         EntriesStore)]
                 /\ store' = {}
                 /\ keyGenerator' = 1
            ELSE /\ database' = [database EXCEPT !.version = version]
                 /\ UNCHANGED <<store, keyGenerator>>
       ELSE UNCHANGED dbVars
    /\ dbHandle' = "open"
    /\ queue' = Append(queue, CursorRequest("init", NoEntry))
    /\ initPc' = "loading"
    /\ UNCHANGED uiVars

\* request.onerror: db.init() rejects, init() catches.
OpenError ==
    /\ initPc = "opening"
    /\ initPc' = "failed"
    /\ ShowToastMessage(MsgInitFailed)
    /\ UNCHANGED <<dbVars, queue, dbHandle, showModal, currentType, entryText,
                   isLoading, recentEntries>>

---------------------------------------------------------------------------
(* User handlers.  Alpine calls init() before it binds any handler, so   *)
(* none runs in the state "start"; the code sets no other condition.     *)

QuickEntry(type) ==
    /\ initPc # "start"
    /\ currentType' = type
    /\ entryText' = <<>>
    /\ showModal' = TRUE
    /\ UNCHANGED <<dbVars, queue, dbHandle, initPc, isLoading, toastMessage,
                   recentEntries>>

CloseModal ==
    /\ initPc # "start"
    /\ showModal' = FALSE
    /\ entryText' = <<>>
    /\ currentType' = ""
    /\ UNCHANGED <<dbVars, queue, dbHandle, initPc, isLoading, toastMessage,
                   recentEntries>>

UseTemplate(template) ==
    /\ initPc # "start"
    /\ entryText' = template
    /\ UNCHANGED <<dbVars, queue, dbHandle, initPc, showModal, currentType,
                   isLoading, toastMessage, recentEntries>>

\* recognition.onresult: the transcript replaces the text, whatever it is.
VoiceResult(transcript) ==
    /\ initPc # "start"
    /\ entryText' = transcript
    /\ UNCHANGED <<dbVars, queue, dbHandle, initPc, showModal, currentType,
                   isLoading, toastMessage, recentEntries>>

---------------------------------------------------------------------------
(* saveEntry *)

\* Empty after trimming: a toast, and nothing else.
SaveEntryRejected ==
    /\ Trim(entryText) = <<>>
    /\ ShowToastMessage(MsgEnterText)
    /\ UNCHANGED <<dbVars, queue, dbHandle, initPc, showModal, currentType,
                   entryText, isLoading, recentEntries>>

SaveEntryThrowsAndCloses ==
    /\ Trim(entryText) # <<>>
    /\ dbHandle = "null"
    /\ ShowToastMessage(MsgSaveFailed)
    /\ isLoading' = FALSE
    /\ showModal' = FALSE
    /\ entryText' = <<>>
    /\ currentType' = ""
    /\ UNCHANGED <<dbVars, queue, dbHandle, initPc, recentEntries>>

\* LoggerDB.saveEntry throws because this.db is null (init() has not opened
\* the database, or failed to): catch shows the toast, finally clears
\* isLoading.  Nothing was awaited in between.
SaveEntryThrows ==
    /\ Trim(entryText) # <<>>
    /\ dbHandle = "null"
    /\ ShowToastMessage(MsgSaveFailed)
    /\ isLoading' = FALSE
    /\ UNCHANGED <<dbVars, queue, dbHandle, initPc, showModal, currentType,
                   entryText, recentEntries>>

\* LoggerDB.saveEntry starts the add request and returns the request object;
\* the await of a value that is no promise goes on in the same task, so
\* loadRecentEntries() starts its cursor request right behind the add.  The
\* handler is then suspended until that cursor request is done.
SaveEntryStarts(now) ==
    /\ Trim(entryText) # <<>>
    /\ dbHandle # "null"
    /\ Cardinality(store) + PendingAdds < MaxEntries
    /\ isLoading' = TRUE
    /\ LET entry == NewEntry(currentType, entryText, now)
       IN queue' = queue \o <<AddRequest(entry), CursorRequest("save", entry)>>
    /\ UNCHANGED <<dbVars, dbHandle, initPc, showModal, currentType, entryText,
                   toastMessage, recentEntries>>

SaveEntry ==
    /\ initPc # "start"
    /\ \/ SaveEntryRejected
       \/ SaveEntryThrows
       \/ \E now \in Instants : SaveEntryStarts(now)

---------------------------------------------------------------------------
(* IndexedDB finishes the oldest transaction *)

NextKeySame(key) == key
\* autoIncrement: the key generator goes up by one with every record stored.
NextKey(key) == key + 1

\* The add request succeeds and its transaction commits.  Nobody listens.
AddCommit ==
    /\ queue # <<>>
    /\ Head(queue).op = "add"
    /\ store' = store \cup {Stored(Head(queue).entry, keyGenerator)}
    /\ keyGenerator' = NextKey(keyGenerator)
    /\ queue' = Tail(queue)
    /\ UNCHANGED <<database, dbHandle, initPc, uiVars>>

\* The add request fails or its transaction aborts (quota, disk).  Nobody
\* listens either.
AddAbort ==
    /\ queue # <<>>
    /\ Head(queue).op = "add"
    /\ queue' = Tail(queue)
    /\ UNCHANGED <<dbVars, dbHandle, initPc, uiVars>>

\* What the caller of loadRecentEntries() does once it returns.
\* saveEntry: closeModal(), the success toast, finally isLoading = false.
\* init: setupNetworkListeners(), the log line.
AfterLoad(owner) ==
    IF owner = "save"
    THEN /\ showModal' = FALSE
         /\ entryText' = <<>>
         /\ currentType' = ""
         /\ ShowToastMessage(MsgSaved)
         /\ isLoading' = FALSE
         /\ UNCHANGED initPc
    ELSE /\ initPc' = "done"
         /\ UNCHANGED <<showModal, entryText, currentType, toastMessage,
                        isLoading>>

\* The cursor has delivered its records: getRecentEntries resolves.
CursorDone ==
    /\ queue # <<>>
    /\ Head(queue).op = "cursor"
    /\ recentEntries' = GetRecentEntries(store, <<LoadLimit>>)
    /\ AfterLoad(Head(queue).owner)
    /\ queue' = Tail(queue)
    /\ UNCHANGED <<dbVars, dbHandle>>

CursorErrorClearsList ==
    /\ queue # <<>>
    /\ Head(queue).op = "cursor"
    /\ recentEntries' = <<>>
    /\ AfterLoad(Head(queue).owner)
    /\ queue' = Tail(queue)
    /\ UNCHANGED <<dbVars, dbHandle>>

\* request.onerror: getRecentEntries rejects, loadRecentEntries catches.
CursorError ==
    /\ queue # <<>>
    /\ Head(queue).op = "cursor"
    /\ UNCHANGED recentEntries
    /\ AfterLoad(Head(queue).owner)
    /\ queue' = Tail(queue)
    /\ UNCHANGED <<dbVars, dbHandle>>

---------------------------------------------------------------------------
(* The page is loaded again: a new component and a new LoggerDB; the       *)
(* database stays, the transactions of the old page are aborted.           *)

Reload ==
    /\ initPc # "start"
    /\ queue' = <<>>
    /\ dbHandle' = "null"
    /\ initPc' = "start"
    /\ showModal' = FALSE
    /\ currentType' = ""
    /\ entryText' = <<>>
    /\ isLoading' = FALSE
    /\ toastMessage' = ""
    /\ recentEntries' = <<>>
    /\ UNCHANGED dbVars

---------------------------------------------------------------------------

Next ==
    \/ AppInit
    \/ OpenSuccess
    \/ OpenError
    \/ \E type \in Types : QuickEntry(type)
    \/ CloseModal
    \/ \E template \in Templates : UseTemplate(template)
    \/ \E transcript \in Texts : VoiceResult(transcript)
    \/ SaveEntry
    \/ AddCommit
    \/ AddAbort
    \/ CursorDone
    \/ CursorError
    \/ Reload

Spec == Init /\ [][Next]_vars

---------------------------------------------------------------------------
(* Vocabulary of the properties *)

Min(a, b) == IF a < b THEN a ELSE b

\* Empty or white space only.
IsBlank(s) == \A i \in 1..Len(s) : s[i] = " "

PositiveLimits == {<<n>> : n \in 1..MaxLimit}
NonPositiveLimits == {<<n>> : n \in -1..0}
NoLimit == <<>>

\* The store record that holds the fields of an entry object.
IsStored(entry, records) ==
    \E r \in records : /\ r.type = entry.type
                       /\ r.content = entry.content
                       /\ r.timestamp = entry.timestamp
                       /\ r.synced = entry.synced

\* The step in which a pending cursor request ends, well or badly, and the
\* suspended caller goes on.
CursorEnds ==
    /\ queue # <<>>
    /\ Head(queue).op = "cursor"
    /\ queue' = Tail(queue)
    /\ initPc' # "start"

SaveResumes == CursorEnds /\ Head(queue).owner = "save"

\* No stored record has a timestamp later than e's.
IsLatest(e, records) ==
    \A o \in records : ~StringLess(e.timestamp, o.timestamp)

---------------------------------------------------------------------------
(* C1: an append followed by listRecent(n), n >= 1, returns a sequence     *)
(* whose first element is the entry just appended, whatever was appended   *)
(* before.                                                                 *)

C1_AppendedIsFirst ==
    [][store' # store =>
         \A e \in store' \ store : \A args \in PositiveLimits :
            GetRecentEntries(store', args)[1] = e]_vars

\* C1 as amended: the same, for an appended entry whose timestamp is not
\* earlier than that of any entry stored before it.
C1_LatestAppendedIsFirst ==
    [][store' # store =>
         \A e \in store' \ store :
            IsLatest(e, store) =>
               \A args \in PositiveLimits :
                  GetRecentEntries(store', args)[1] = e]_vars

\* Two records, the second no earlier than the first, listed first by the
\* query and shown first in the list on screen.
C1_Witness ==
    /\ Cardinality(store) >= 2
    /\ \E e \in store :
          /\ e.id = keyGenerator - 1
          /\ IsLatest(e, store)
          /\ GetRecentEntries(store, <<1>>) = <<e>>
          /\ recentEntries # <<>>
          /\ recentEntries[1] = e

---------------------------------------------------------------------------
(* C2: whatever the store holds and whatever the limit, the sequence       *)
(* listRecent returns is ordered by non-increasing timestamp, and of two   *)
(* entries with equal timestamps the one with the higher id comes first.   *)

IsRecencyOrdered(entries) ==
    \A i, j \in 1..Len(entries) :
       i < j =>
          /\ ~StringLess(entries[i].timestamp, entries[j].timestamp)
          /\ entries[i].timestamp = entries[j].timestamp
                => entries[i].id > entries[j].id

C2_RecencyOrder ==
    \A args \in PositiveLimits \cup NonPositiveLimits \cup {NoLimit} :
       IsRecencyOrdered(GetRecentEntries(store, args))

\* Two records with equal timestamps, the later one listed first.
C2_Witness ==
    \E a, b \in store :
       /\ a.id < b.id
       /\ a.timestamp = b.timestamp
       /\ GetRecentEntries(store, <<2>>) = <<b, a>>

---------------------------------------------------------------------------
(* C3: for a positive limit listRecent returns exactly min(limit, number   *)
(* of stored entries) entries, never more than limit, and the empty        *)
(* sequence when the store is empty.                                       *)

C3_ExactCount ==
    \A args \in PositiveLimits :
       LET entries == GetRecentEntries(store, args)
       IN /\ Len(entries) = Min(args[1], Cardinality(store))
          /\ Len(entries) <= args[1]
          /\ store = {} => entries = <<>>

\* The limit cuts the result short.
C3_Witness ==
    /\ Cardinality(store) = 2
    /\ Len(GetRecentEntries(store, <<1>>)) = 1
    /\ Len(GetRecentEntries(store, <<MaxLimit>>)) = 2

---------------------------------------------------------------------------
(* C4: called without a limit or with a limit of 0 or less, listRecent     *)
(* behaves as with the default limit 10: it returns the min(10, number of  *)
(* stored entries) most recent entries.                                    *)

C4_NonPositiveLimitIsDefault ==
    \A args \in NonPositiveLimits \cup {NoLimit} :
       LET entries == GetRecentEntries(store, args)
       IN /\ Len(entries) = Min(DefaultLimit, Cardinality(store))
          /\ entries = GetRecentEntries(store, <<DefaultLimit>>)

---------------------------------------------------------------------------
(* C5: a save whose content is empty or white space only creates no        *)
(* stored record: the collection is as before, no storage operation is     *)
(* started, and the user is told to enter some text.                       *)

C5_BlankIsRejected ==
    /\ [](\A r \in store : ~IsBlank(r.content))
    /\ [][(SaveEntry /\ IsBlank(entryText)) =>
            /\ store' = store
            /\ keyGenerator' = keyGenerator
            /\ queue' = queue
            /\ toastMessage' = MsgEnterText]_vars

\* White space was entered and rejected while the database was open and
\* held a record.
C5_Witness ==
    /\ toastMessage = MsgEnterText
    /\ entryText = <<" ">>
    /\ dbHandle = "open"
    /\ store # {}

---------------------------------------------------------------------------
(* C6: when an append fails the caller is told and the user sees the       *)
(* failure toast; the toast 'Entry saved successfully' is shown only for   *)
(* an entry that was stored.                                               *)

C6_SuccessToastOnlyIfStored ==
    [][(SaveResumes /\ toastMessage' = MsgSaved) =>
          IsStored(Head(queue).entry, store)]_vars

---------------------------------------------------------------------------
(* C7: the collection is an append-only log: every record once stored      *)
(* stays stored with its fields unchanged, and an append that succeeds     *)
(* adds exactly one record, whose id is greater than every id stored       *)
(* before; ids are unique.                                                 *)

C7_AppendOnly ==
    /\ [](\A r1, r2 \in store : r1.id = r2.id => r1 = r2)
    /\ [][/\ store \subseteq store'
          /\ store' # store =>
                /\ Cardinality(store' \ store) = 1
                /\ \A e \in store' \ store : \A o \in store : e.id > o.id]_vars

\* Two records, after a second page load has listed them.
C7_Witness ==
    /\ Cardinality(store) = 2
    /\ initPc = "done"
    /\ Len(recentEntries) = 2
    /\ toastMessage = ""

---------------------------------------------------------------------------
(* C8: initialize is idempotent: a second call leaves one collection       *)
(* 'entries' with its two indexes and every record as it was, so           *)
(* listRecent returns the same as before.                                  *)

OpenSucceeds == initPc = "opening" /\ initPc' = "loading"

C8_InitIdempotent ==
    /\ [](database.version = version =>
            /\ Len(database.objectStores) = 1
            /\ database.objectStores[1].name = "entries"
            /\ database.objectStores[1].indexes = {"timestamp", "type"})
    /\ [][(OpenSucceeds /\ database.version = version) =>
            /\ database' = database
            /\ store' = store
            /\ keyGenerator' = keyGenerator
            /\ \A args \in PositiveLimits \cup {NoLimit} :
                  GetRecentEntries(store', args) = GetRecentEntries(store, args)]_vars

\* The database of an earlier page load, with records, opened again.
C8_Witness ==
    /\ initPc = "loading"
    /\ store # {}
    /\ Len(queue) = 1
    /\ database.version = version

---------------------------------------------------------------------------
(* C9: when the recency query fails the list on screen is left as it was,  *)
(* and the caller of loadRecentEntries goes on as after a query that       *)
(* succeeded.                                                              *)

C9_ReadErrorKeepsList ==
    [][CursorEnds =>
         /\ recentEntries' = GetRecentEntries(store, <<LoadLimit>>)
               \/ recentEntries' = recentEntries
         /\ Head(queue).owner = "init" => initPc' = "done"
         /\ Head(queue).owner = "save" =>
               toastMessage' = MsgSaved /\ isLoading' = FALSE]_vars

\* A save went through, its query failed: the list still shows the one
\* record it showed before.
C9_Witness ==
    /\ toastMessage = MsgSaved
    /\ queue = <<>>
    /\ Cardinality(store) = 2
    /\ Len(recentEntries) = 1
    /\ recentEntries[1] \in store

---------------------------------------------------------------------------
(* C10: a saveEntry that passes the empty-content check leaves isLoading   *)
(* false when it finishes; if it raised an error the modal stays open and  *)
(* entryText and currentType are unchanged; the modal is closed and the    *)
(* text cleared only when no error was raised.                             *)

C10_SaveFrame ==
    /\ [][(SaveEntry /\ ~IsBlank(entryText) /\ dbHandle = "null") =>
            /\ isLoading' = FALSE
            /\ toastMessage' = MsgSaveFailed
            /\ UNCHANGED <<showModal, entryText, currentType>>]_vars
    /\ [][SaveResumes =>
            /\ isLoading' = FALSE
            /\ showModal' = FALSE
            /\ entryText' = <<>>
            /\ currentType' = ""]_vars

\* The save failed because the database never opened: the modal is open,
\* the text is still there.
C10_Witness ==
    /\ toastMessage = MsgSaveFailed
    /\ showModal
    /\ currentType \in Types
    /\ entryText = <<" ", "a", " ">>
    /\ ~isLoading
    /\ initPc = "failed"

====
